---- MODULE Spec2Model ----
(***************************************************************************)
(* A model of tedfetch: the parser (internal/parser) with ParseURL, its    *)
(* structured-API path and markup fallback, the markup extractors and      *)
(* ParseTopic with its per-entry enrichment; the downloader                *)
(* (internal/downloader) with its retry loop; and the download command     *)
(* (cmd/download.go) that resolves its argument and downloads the files.   *)
(*                                                                         *)
(* Strings the code inspects (URLs, hrefs) are sequences of tokens; the    *)
(* string is the concatenation of its tokens.  No token is a proper part   *)
(* of another one across a boundary, so Contains, HasPrefix and Split on   *)
(* tokens agree with the same functions on the concatenated characters.    *)
(* Strings the code only copies or compares as a whole (error messages,    *)
(* titles, language codes) are TLA+ strings.                               *)
(***************************************************************************)
EXTENDS Integers, Sequences, FiniteSets, TLC

VARIABLES
    pc,         \* position of the running call
    url,        \* ParseURL's argument
    requests,   \* HTTP requests issued so far, in order
    apiResp,    \* what the structured API answered, <<>> before the POST
    pages,      \* page responses received by GETs, in order
    talk,       \* the Talk under construction on the structured-API path
    apiErr,     \* the error parseWithGraphQL returned, "" if none
    htmlCalls,  \* number of calls of parseWithHTML
    result,     \* what the call returned
    limit,      \* ParseTopic's limit argument
    query,      \* ParseTopic's query argument
    blocks,     \* the listing's matching blocks, in document order
    idx,        \* index of the block the Each callback is at
    talks,      \* parseTalksList's talks slice
    bodies,     \* the response bodies obtained so far and their Close calls
    nilClose,   \* whether Body.Close was reached through a nil response
    Debug,      \* Parser.Debug
    RawResponses, \* Parser.RawResponses
    args,       \* runDownload's positional arguments
    quality,    \* the --quality flag
    subtitle,   \* the --subtitle flag
    cmd,        \* position of runDownload
    cmdResult,  \* what runDownload returned
    dlpc,       \* position of the running DownloadVideo / DownloadSubtitle
    dlCall,     \* its method, url and filename
    attempt,    \* its loop counter
    lastErr,    \* its lastErr
    dlErr,      \* the error it returned, "" for nil
    outcomes,   \* the outcome of each attempt it made, in order
    fs          \* the files: filename -> content

\* what the parser's calls leave alone
cmdVars == <<args, quality, subtitle, cmd, cmdResult>>

dlVars == <<dlpc, dlCall, attempt, lastErr, dlErr, outcomes, fs>>

vars == <<pc, url, requests, apiResp, pages, talk, apiErr, htmlCalls, result,
          limit, query, blocks, idx, talks, bodies, nilClose, Debug,
          RawResponses, cmdVars, dlVars>>

----------------------------------------------------------------------------
(* Bounds of the input sets. *)

MaxURLLen == 4
MaxSubs == 2
MaxScripts == 2
MaxH264 == 2
MaxAnchors == 2
MaxBlocks == 2
MaxLimit == 2

----------------------------------------------------------------------------
(* Go maps as functions with a finite domain; a nil map and an empty map   *)
(* both have length 0.                                                     *)

EmptyMap == [k \in {} |-> <<>>]

Put(m, k, v) == [x \in (DOMAIN m) \cup {k} |-> IF x = k THEN v ELSE m[x]]

MapLen(m) == Cardinality(DOMAIN m)

SeqsUpTo(S, n) == UNION {[1..k -> S] : k \in 0..n}

----------------------------------------------------------------------------
(* strings.* on token sequences *)

\* strings.SplitN(s, sep, 2)[0]: the part before the first sep, or all of s
BeforeFirst(s, sep) ==
    IF \E i \in 1..Len(s) : s[i] = sep
    THEN SubSeq(s, 1, (CHOOSE i \in 1..Len(s) :
                          s[i] = sep /\ \A j \in 1..(i-1) : s[j] # sep) - 1)
    ELSE s

\* strings.Split(s, sep): the parts between separators, empty parts kept
RECURSIVE Split(_, _)
Split(s, sep) ==
    IF \E i \in 1..Len(s) : s[i] = sep
    THEN LET i == CHOOSE i \in 1..Len(s) :
                      s[i] = sep /\ \A j \in 1..(i-1) : s[j] # sep
         IN  <<SubSeq(s, 1, i-1)>> \o Split(SubSeq(s, i+1, Len(s)), sep)
    ELSE <<s>>

\* strings.Contains(s, sub) for a token sequence sub
Contains(s, sub) ==
    \E i \in 0..(Len(s) - Len(sub)) : SubSeq(s, i+1, i+Len(sub)) = sub

\* strings.HasPrefix(s, "http"); "http" is a token, no other token starts with h
HasPrefixHttp(s) == Len(s) >= 1 /\ s[1] = "http"

baseURL == <<"http", "s", ":", "/", "/", "www.ted.com">>

----------------------------------------------------------------------------
(* Talk and the call's result *)

NewTalk(u) ==
    [Title |-> "", Speaker |-> "", URL |-> u,
     VideoURLs |-> EmptyMap, VideoFormats |-> <<>>, SubtitleURLs |-> EmptyMap]

Pending == [kind |-> "pending", talk |-> <<>>, err |-> ""]

ReturnTalk(t) == [kind |-> "returned", talk |-> <<t>>, err |-> ""]

ReturnErr(e) == [kind |-> "returned", talk |-> <<>>, err |-> e]

\* a runtime panic unwinds the call: nothing is returned
Panicked == [kind |-> "panic", talk |-> <<>>, err |-> ""]

----------------------------------------------------------------------------
(* ParseURL: slug extraction and validation *)

URLTokens == {"/", "?", ".", "talks", "s"}

URLs == SeqsUpTo(URLTokens, MaxURLLen)

StripQuery(u) == BeforeFirst(u, "?")

\* the last non-empty part, <<>> if there is none
LastNonEmpty(parts) ==
    IF \E i \in 1..Len(parts) : parts[i] # <<>>
    THEN parts[CHOOSE i \in 1..Len(parts) :
                  parts[i] # <<>> /\ \A j \in (i+1)..Len(parts) : parts[j] = <<>>]
    ELSE <<>>

SlugOf(u) == LastNonEmpty(Split(StripQuery(u), "/"))

\* ValidURL without the test for "." in the slug
ValidURL_NoDotTest(u) ==
    ~(SlugOf(u) = <<>>
      \/ ~Contains(StripQuery(u), <<"/", "talks", "/">>))

ValidURL(u) ==
    ~(SlugOf(u) = <<>>
      \/ Contains(SlugOf(u), <<".">>)
      \/ ~Contains(StripQuery(u), <<"/", "talks", "/">>))

----------------------------------------------------------------------------
(* The structured API's answer to the POST *)

Codes == {"en", "EN", "zh-CN"}

\* strings.ToLower on the language codes
ToLower(c) ==
    CASE c = "EN" -> "en"
      [] c = "zh-CN" -> "zh-cn"
      [] OTHER -> c

SubEntries == [code : Codes, low : {<<>>, <<"a">>, <<"b">>}, high : {<<>>, <<"h">>}]

\* nativeDownloads is decoded but every node carries it; one value suffices
NativeLow == <<"n">>

NodeOf(subs) == [native |-> NativeLow, subs |-> subs]

APIFail(k) == [kind |-> k, errors |-> <<>>, nodes |-> <<>>]

APIJson(errs, nodes) == [kind |-> "json", errors |-> errs, nodes |-> nodes]

SampleNode ==
    NodeOf(<<[code |-> "en", low |-> <<"a">>, high |-> <<"h">>],
             [code |-> "zh-CN", low |-> <<"b">>, high |-> <<"h">>]>>)

APIFailures ==
    {APIFail("neterr"), APIFail("readerr"), APIFail("undecodable"),
     APIJson(<<"Invalid slug">>, <<>>), APIJson(<<"Invalid slug">>, <<SampleNode>>),
     APIJson(<<>>, <<>>)}

APIResponses ==
    APIFailures
    \cup {APIJson(<<>>, <<NodeOf(s)>>) : s \in SeqsUpTo(SubEntries, MaxSubs)}
    \cup {APIJson(<<>>, <<NodeOf(<<>>), SampleNode>>),
          APIJson(<<>>, <<SampleNode, NodeOf(<<>>)>>)}

SampleAPIResponses ==
    APIFailures \cup {APIJson(<<>>, <<SampleNode>>), APIJson(<<>>, <<NodeOf(<<>>)>>)}

MarkupAPIResponses == APIFailures \cup {APIJson(<<>>, <<SampleNode>>)}

----------------------------------------------------------------------------
(* Page responses and the markup document goquery builds from a body *)

H264Entries == [quality : {"720p", "1080p"}, size : {0, 500000}, file : {<<>>, <<"v1">>, <<"v2">>}]

\* the script text between its first "{" and last "}" and what it decodes to:
\*   nobrace   no "{" or no "}" in the text
\*   reversed  the last "}" lies two or more characters before the first "{"
\*   badjson   json.Unmarshal fails
\*   json      decoded, talks -> player_talks -> resources.h264
PayloadOf(k, ts) == [kind |-> k, talks |-> ts]

JsonH264(entries) ==
    PayloadOf("json", <<[player_talks |-> <<[h264 |-> entries]>>]>>)

ScriptOf(marker, payload) == [marker |-> marker, payload |-> payload]

SampleH264 ==
    <<[quality |-> "1080p", size |-> 500000, file |-> <<"v1">>],
      [quality |-> "720p", size |-> 0, file |-> <<"v2">>]>>

SampleScripts ==
    {ScriptOf(TRUE, JsonH264(SampleH264)),
     ScriptOf(TRUE, JsonH264(<<[quality |-> "720p", size |-> 0, file |-> <<"v1">>]>>)),
     ScriptOf(FALSE, JsonH264(SampleH264)),
     ScriptOf(TRUE, PayloadOf("badjson", <<>>)),
     ScriptOf(TRUE, PayloadOf("nobrace", <<>>)),
     ScriptOf(TRUE, PayloadOf("reversed", <<>>)),
     ScriptOf(TRUE, PayloadOf("json", <<>>)),
     ScriptOf(TRUE, PayloadOf("json", <<[player_talks |-> <<>>]>>)),
     ScriptOf(TRUE, PayloadOf("json",
         <<[player_talks |-> <<[h264 |-> <<>>], [h264 |-> SampleH264]>>],
           [player_talks |-> <<[h264 |-> SampleH264]>>]>>))}

Langs == {"", "en", "zh-CN"}

Hrefs ==
    {<<>>,
     <<"/", "talks", "/", "s">>,
     <<"http", "s", ":", "/", "/", "cdn">>,
     <<"http", "docs">>,
     <<"ftp", ":", "/", "/", "cdn">>}

\* an <a data-language=lang>; hasHref is whether it carries an href attribute
Anchors ==
    [lang : Langs, hasHref : {TRUE}, href : Hrefs]
    \cup [lang : Langs, hasHref : {FALSE}, href : {<<>>}]

DocOf(h1, h2, scripts, anchors) ==
    [h1 |-> h1, h2 |-> h2, scripts |-> scripts, anchors |-> anchors]

EmptyDoc == DocOf("", "", <<>>, <<>>)

PageFail(k) == [kind |-> k, status |-> 0, doc |-> EmptyDoc]

PageOK(status, doc) == [kind |-> "ok", status |-> status, doc |-> doc]

PageFailures == {PageFail("neterr"), PageFail("readerr")}

\* the kinds on which a GET returns an error
GetErrors == {"neterr", "redirecterr"}

SampleAnchors ==
    <<[lang |-> "en", hasHref |-> TRUE, href |-> <<"/", "talks", "/", "s">>],
      [lang |-> "zh-CN", hasHref |-> TRUE, href |-> <<"http", "s", ":", "/", "/", "cdn">>]>>

\* a few whole pages: title only, video and subtitles, a script that breaks
\* the slice, a 404
SamplePages ==
    PageFailures
    \cup {PageOK(200, DocOf("Title", "Speaker", <<>>, <<>>)),
          PageOK(200, DocOf("Title", "Speaker",
                            <<ScriptOf(TRUE, JsonH264(SampleH264))>>, SampleAnchors)),
          PageOK(200, DocOf("Title", "Speaker",
                            <<ScriptOf(TRUE, PayloadOf("reversed", <<>>))>>, SampleAnchors)),
          PageOK(404, EmptyDoc)}

\* pages for the GET that only reads the title and the speaker
TitlePages ==
    PageFailures
    \cup {PageFail("redirecterr"),
          PageOK(200, DocOf("Title", "Speaker", <<>>, <<>>)),
          PageOK(404, DocOf("Not found", "", <<>>, SampleAnchors))}

\* pages that vary one part of the document at a time
MarkupPages ==
    PageFailures
    \cup {PageOK(200, DocOf("Title", "Speaker", <<ScriptOf(TRUE, JsonH264(e))>>, <<>>)) :
            e \in SeqsUpTo(H264Entries, MaxH264)}
    \cup {PageOK(200, DocOf("Title", "Speaker", s, <<>>)) :
            s \in SeqsUpTo(SampleScripts, MaxScripts)}
    \cup {PageOK(200, DocOf("Title", "Speaker", <<>>, a)) :
            a \in SeqsUpTo(Anchors, MaxAnchors)}
    \cup {PageOK(404, EmptyDoc),
          PageOK(404, DocOf("Not found", "", <<>>, SampleAnchors)),
          PageOK(503, DocOf("", "", <<ScriptOf(TRUE, JsonH264(SampleH264))>>, <<>>))}

----------------------------------------------------------------------------
(* extractVideoURLs *)

\* H264Step that keeps the first URL seen for a quality
H264Step_KeepFirst(t, e) ==
    [t EXCEPT !.VideoFormats = Append(@, [Quality |-> e.quality, URL |-> e.file,
                                          Size |-> e.size]),
              !.VideoURLs = IF e.quality \in DOMAIN @ THEN @
                            ELSE Put(@, e.quality, e.file)]

\* the body of the loop over resources.H264
H264Step(t, e) ==
    [t EXCEPT !.VideoFormats = Append(@, [Quality |-> e.quality, URL |-> e.file,
                                          Size |-> e.size]),
              !.VideoURLs = Put(@, e.quality, e.file)]

RECURSIVE H264Loop(_, _, _)
H264Loop(t, entries, i) ==
    IF i > Len(entries) THEN t
    ELSE H264Loop(H264Step(t, entries[i]), entries, i + 1)

\* the Each callback on one <script>: [panic, talk]
ScriptStep(t, s) ==
    IF ~s.marker \/ s.payload.kind = "nobrace" THEN [panic |-> FALSE, talk |-> t]
    ELSE IF s.payload.kind = "reversed" THEN [panic |-> TRUE, talk |-> t]
    ELSE IF s.payload.kind = "badjson" THEN [panic |-> FALSE, talk |-> t]
    ELSE LET ts == s.payload.talks IN
         IF Len(ts) > 0 /\ Len(ts[1].player_talks) > 0
         THEN [panic |-> FALSE,
               talk |-> H264Loop(t, ts[1].player_talks[1].h264, 1)]
         ELSE [panic |-> FALSE, talk |-> t]

RECURSIVE ScriptLoop(_, _, _)
ScriptLoop(t, scripts, i) ==
    IF i > Len(scripts) THEN [panic |-> FALSE, talk |-> t]
    ELSE LET r == ScriptStep(t, scripts[i]) IN
         IF r.panic THEN r ELSE ScriptLoop(r.talk, scripts, i + 1)

ExtractVideoURLs(doc, t) == ScriptLoop(t, doc.scripts, 1)

----------------------------------------------------------------------------
(* extractSubtitleURLs *)

Absolutize(href) == IF ~HasPrefixHttp(href) THEN baseURL \o href ELSE href

\* the Each callback on one a[data-language]
AnchorStep(m, a) ==
    IF a.hasHref /\ a.lang # "" THEN Put(m, a.lang, Absolutize(a.href)) ELSE m

RECURSIVE AnchorLoop(_, _, _)
AnchorLoop(m, anchors, i) ==
    IF i > Len(anchors) THEN m
    ELSE AnchorLoop(AnchorStep(m, anchors[i]), anchors, i + 1)

ExtractSubtitleURLs(doc, t) ==
    [t EXCEPT !.SubtitleURLs = AnchorLoop(EmptyMap, doc.anchors, 1)]

----------------------------------------------------------------------------
(* parseWithHTML, from the response to its GET *)

\* NoData testing the maps for nil: extractSubtitleURLs always makes one
NoData_NilTest(t) == FALSE

NoData(t) == MapLen(t.VideoURLs) = 0 /\ MapLen(t.SubtitleURLs) = 0

ParseWithHTML(u, p) ==
    IF p.kind \in GetErrors THEN ReturnErr("failed to fetch talk page")
    ELSE IF p.kind = "readerr" THEN ReturnErr("failed to read HTML response")
    ELSE LET t0 == [NewTalk(u) EXCEPT !.Title = p.doc.h1, !.Speaker = p.doc.h2]
             v  == ExtractVideoURLs(p.doc, t0)
         IN  IF v.panic THEN Panicked
             ELSE LET t == ExtractSubtitleURLs(p.doc, v.talk) IN
                  IF NoData(t)
                  THEN ReturnErr("no video or subtitle data found")
                  ELSE ReturnTalk(t)

----------------------------------------------------------------------------
(* parseWithGraphQL, from the API's answer to the Talk before the page GET *)

\* VideoLoop without the break
RECURSIVE VideoLoop_NoBreak(_, _, _)
VideoLoop_NoBreak(m, subs, i) ==
    IF i > Len(subs) THEN m
    ELSE IF subs[i].code = "en"
    THEN VideoLoop_NoBreak(Put(Put(m, "720p", subs[i].low), "1080p", subs[i].high),
                           subs, i + 1)
    ELSE VideoLoop_NoBreak(m, subs, i + 1)

\* lines 404-410: the loop that stops at the first entry whose code is "en"
RECURSIVE VideoLoop(_, _, _)
VideoLoop(m, subs, i) ==
    IF i > Len(subs) THEN m
    ELSE IF subs[i].code = "en"
    THEN Put(Put(m, "720p", subs[i].low), "1080p", subs[i].high)
    ELSE VideoLoop(m, subs, i + 1)

\* SubtitleStep without strings.ToLower
SubtitleStep_NoToLower(m, sub) ==
    IF sub.low # <<>> THEN Put(m, sub.code, sub.low) ELSE m

\* lines 414-419: the body of the loop over every entry
SubtitleStep(m, sub) ==
    IF sub.low # <<>> THEN Put(m, ToLower(sub.code), sub.low) ELSE m

RECURSIVE SubtitleLoop(_, _, _)
SubtitleLoop(m, subs, i) ==
    IF i > Len(subs) THEN m
    ELSE SubtitleLoop(SubtitleStep(m, subs[i]), subs, i + 1)

\* GraphQLError without the test of the errors payload
GraphQLError_NoErrorsTest(r) ==
    CASE r.kind = "neterr" -> "failed to send request"
      [] r.kind = "readerr" -> "failed to read response"
      [] r.kind = "undecodable" -> "failed to decode response"
      [] OTHER -> IF Len(r.nodes) = 0 THEN "no video data found" ELSE ""

\* the error parseWithGraphQL returns on the API's answer, "" if it goes on
GraphQLError(r) ==
    CASE r.kind = "neterr" -> "failed to send request"
      [] r.kind = "readerr" -> "failed to read response"
      [] r.kind = "undecodable" -> "failed to decode response"
      [] OTHER -> IF Len(r.errors) > 0 THEN "GraphQL error"
                  ELSE IF Len(r.nodes) = 0 THEN "no video data found"
                  ELSE ""

TalkFromNode(u, node) ==
    [NewTalk(u) EXCEPT !.VideoURLs = VideoLoop(EmptyMap, node.subs, 1),
                       !.SubtitleURLs = SubtitleLoop(EmptyMap, node.subs, 1)]

----------------------------------------------------------------------------
(* ParseURL as steps between its HTTP requests *)

Req(method, via, target) == [method |-> method, via |-> via, target |-> target]

\* a response body the call obtained and the number of Close calls on it
Body(of, closes) == [of |-> of, closes |-> closes]

\* the deferred Close of the open body named of
CloseBody(bs, of) ==
    [i \in 1..Len(bs) |->
        IF bs[i].of = of /\ bs[i].closes = 0 THEN Body(of, 1) ELSE bs[i]]

\* StoreRawResponse without the test of Debug
StoreRawResponse_Always(raw, debug, key, data) == Put(raw, key, data)

\* lines 69-74
StoreRawResponse(raw, debug, key, data) ==
    IF debug THEN Put(raw, key, data) ELSE raw

NoAPIResp == APIFail("none")

\* lines 252-267: slug extraction and validation
ParseURL ==
    /\ pc = "ParseURL"
    /\ IF ValidURL(url)
       THEN pc' = "graphql" /\ result' = result
       ELSE pc' = "done" /\ result' = ReturnErr("invalid TED talk URL")
    /\ UNCHANGED <<url, requests, apiResp, pages, talk, apiErr, htmlCalls,
                   limit, query, blocks, idx, talks, bodies, nilClose, Debug,
                   RawResponses, cmdVars, dlVars>>

\* lines 281-419: the POST and the Talk built from its answer r.  The deferred
\* Close of line 345 runs when parseWithGraphQL returns: here if it returns an
\* error, in FetchDetails otherwise.
ParseWithGraphQL(r) ==
    /\ pc = "graphql"
    /\ requests' = Append(requests, Req("POST", "client.Do", <<"graphql">>))
    /\ apiResp' = r
    /\ bodies' = IF r.kind = "neterr" THEN bodies
                 ELSE Append(bodies, Body("api", IF GraphQLError(r) # "" THEN 1 ELSE 0))
    /\ RawResponses' =
          IF r.kind \in {"neterr", "readerr"} THEN RawResponses
          ELSE StoreRawResponse(RawResponses, Debug, <<"graphql_">> \o SlugOf(url), r)
    /\ IF GraphQLError(r) # ""
       THEN /\ apiErr' = GraphQLError(r)
            /\ pc' = "fallback"
            /\ talk' = talk
       ELSE /\ talk' = TalkFromNode(url, r.nodes[1])
            /\ pc' = "details"
            /\ apiErr' = apiErr
    /\ UNCHANGED <<url, pages, htmlCalls, result, limit, query, blocks, idx, talks,
                   nilClose, Debug, cmdVars, dlVars>>

\* lines 421-451: the GET of the talk page for title and speaker, answered p.
\* Line 422 assigns the GET's response to the variable resp that the deferred
\* closure of line 345 reads, so every deferred Close of the call is made
\* through the GET's response:
\*   neterr       the response is nil, the closure of line 345 dereferences it
\*                when parseWithGraphQL returns the error: a runtime panic;
\*   redirecterr  http.Get failed on its redirect policy: the response is not
\*                nil and the client has closed its body already;
\*   readerr, ok  the closures of lines 345 and 426 both close the page's body.
\* The API's body is closed on none of them.
FetchDetails(p) ==
    /\ pc = "details"
    /\ requests' = Append(requests, Req("GET", "http.Get", url))
    /\ pages' = Append(pages, p)
    /\ bodies' = IF p.kind = "neterr" THEN bodies
                 ELSE Append(bodies, Body("details", 2))
    /\ nilClose' = (nilClose \/ p.kind = "neterr")
    /\ RawResponses' =
          IF p.kind = "ok"
          THEN StoreRawResponse(RawResponses, Debug, <<"html_">> \o SlugOf(url), p)
          ELSE RawResponses
    /\ IF p.kind = "ok"
       THEN /\ talk' = [talk EXCEPT !.Title = p.doc.h1, !.Speaker = p.doc.h2]
            /\ result' = ReturnTalk(talk')
            /\ pc' = "done"
            /\ apiErr' = apiErr
       ELSE IF p.kind = "neterr"
       THEN /\ result' = Panicked
            /\ pc' = "done"
            /\ UNCHANGED <<talk, apiErr>>
       ELSE /\ apiErr' = IF p.kind = "redirecterr" THEN "failed to fetch talk page"
                         ELSE "failed to read HTML response"
            /\ pc' = "fallback"
            /\ UNCHANGED <<talk, result>>
    /\ UNCHANGED <<url, apiResp, htmlCalls, limit, query, blocks, idx, talks,
                   Debug, cmdVars, dlVars>>

\* lines 271-275 and 455-504: the fallback, its GET answered p
Fallback(p) ==
    /\ pc = "fallback"
    /\ htmlCalls' = htmlCalls + 1
    /\ requests' = Append(requests, Req("GET", "client.Get", url))
    /\ pages' = Append(pages, p)
    /\ result' = ParseWithHTML(url, p)
    /\ bodies' = IF p.kind \in GetErrors THEN bodies
                 ELSE Append(bodies, Body("fallback", 1))
    /\ RawResponses' =
          IF p.kind = "ok"
          THEN StoreRawResponse(RawResponses, Debug, <<"html_", "fallback">>, p)
          ELSE RawResponses
    /\ pc' = "done"
    /\ UNCHANGED <<url, apiResp, talk, apiErr, limit, query, blocks, idx, talks,
                   nilClose, Debug, cmdVars, dlVars>>

\* no download is running and no file exists
NoDownload ==
    /\ dlpc = "idle"
    /\ dlCall = [method |-> "", url |-> <<>>, filename |-> <<>>]
    /\ attempt = 0
    /\ lastErr = ""
    /\ dlErr = ""
    /\ outcomes = <<>>
    /\ fs = EmptyMap

\* the call is not made by the download command
NoCommand ==
    /\ args = <<>>
    /\ quality = ""
    /\ subtitle = ""
    /\ cmd = "none"
    /\ cmdResult = Pending

\* lines 49-55: a parser as New makes it, nothing requested yet
NewParser ==
    /\ requests = <<>>
    /\ apiResp = NoAPIResp
    /\ pages = <<>>
    /\ talk = NewTalk(<<>>)
    /\ apiErr = ""
    /\ htmlCalls = 0
    /\ result = Pending
    /\ blocks = <<>>
    /\ idx = 0
    /\ talks = <<>>
    /\ bodies = <<>>
    /\ nilClose = FALSE

InitParseURL(U) ==
    /\ pc = "ParseURL"
    /\ url \in U
    /\ NewParser
    /\ limit = 0
    /\ query = <<>>
    /\ Debug = FALSE
    /\ RawResponses = EmptyMap
    /\ NoCommand
    /\ NoDownload

SampleURLs ==
    {<<"http", "s", ":", "/", "/", "www.ted.com", "/", "talks", "/", "s", "?", "s">>,
     <<"http", "s", ":", "/", "/", "www.ted.com", "/">>}

\* every URL, a few API answers and pages
InitURL == InitParseURL(URLs)

NextURL ==
    \/ ParseURL
    \/ \E r \in SampleAPIResponses : ParseWithGraphQL(r)
    \/ \E p \in SamplePages : FetchDetails(p)
    \/ \E p \in SamplePages : Fallback(p)

SpecURL == InitURL /\ [][NextURL]_vars

\* a few URLs, every API answer, a few pages
Init == InitParseURL(SampleURLs)

Next ==
    \/ ParseURL
    \/ \E r \in APIResponses : ParseWithGraphQL(r)
    \/ \E p \in TitlePages : FetchDetails(p)
    \/ \E p \in SamplePages : Fallback(p)

Spec == Init /\ [][Next]_vars

\* a few URLs, the API's failures and one success, every page
NextMarkup ==
    \/ ParseURL
    \/ \E r \in MarkupAPIResponses : ParseWithGraphQL(r)
    \/ \E p \in TitlePages : FetchDetails(p)
    \/ \E p \in MarkupPages : Fallback(p)

SpecMarkup == Init /\ [][NextMarkup]_vars

\* ParseURL on a parser that may have debug capture on and may hold the
\* captures of an earlier call
DebugURLs ==
    SampleURLs
    \cup {<<"http", "s", ":", "/", "/", "www.ted.com", "/", "talks", "/", "s", "s">>}

\* what an earlier call for slug, successful on the structured API, captured
PrevCaptures(slug) ==
    Put(Put(EmptyMap, <<"graphql_">> \o slug, APIJson(<<>>, <<NodeOf(<<>>)>>)),
        <<"html_">> \o slug, PageOK(200, EmptyDoc))

InitDebug ==
    /\ pc = "ParseURL"
    /\ url \in DebugURLs
    /\ NewParser
    /\ limit = 0
    /\ query = <<>>
    /\ Debug \in BOOLEAN
    /\ RawResponses \in {EmptyMap, PrevCaptures(<<"s">>), PrevCaptures(<<"fallback">>)}
    /\ NoCommand
    /\ NoDownload

NextDebug ==
    \/ ParseURL
    \/ \E r \in SampleAPIResponses : ParseWithGraphQL(r)
    \/ \E p \in TitlePages : FetchDetails(p)
    \/ \E p \in SamplePages : Fallback(p)

SpecDebug == InitDebug /\ [][NextDebug]_vars

----------------------------------------------------------------------------
(* ParseTopic and parseTalksList *)

Queries == {<<"education">>, <<"power", " ", "of">>}

\* strings.ReplaceAll(q, " ", "+")
ReplaceSpaces(q) == [i \in 1..Len(q) |-> IF q[i] = " " THEN "+" ELSE q[i]]

\* lines 84-91: the listing URL for a query
ListURL(q) ==
    IF ~Contains(q, <<" ">>)
    THEN baseURL \o <<"/", "talks", "?", "topics[]=">> \o q
    ELSE baseURL \o <<"/", "search", "?", "q=">> \o ReplaceSpaces(q)

\* a link inside a block: its trimmed text and its href attribute; a selection
\* that matches nothing has text "" and no href
LinkOf(text, hasHref, href) == [text |-> text, hasHref |-> hasHref, href |-> href]

NoLink == LinkOf("", FALSE, <<>>)

\* a matching block: whether it has class search__result, its "h3 a" link, its
\* ".media__message__title a" link, the trimmed text of its speaker element
BlockOf(search, h3a, titlea, speaker) ==
    [search |-> search, h3a |-> h3a, titlea |-> titlea, speaker |-> speaker]

SampleBlocks ==
    {BlockOf(FALSE, NoLink, LinkOf("A", TRUE, <<"/", "talks", "/", "s">>), "X"),
     BlockOf(TRUE,
             LinkOf("B", TRUE,
                    <<"http", "s", ":", "/", "/", "www.ted.com", "/", "talks", "/", "s">>),
             NoLink, "Y"),
     BlockOf(FALSE, LinkOf("C", TRUE, <<"/", "talks", "/", "s">>), NoLink, "")}

\* lines 117-122: the title link by the block's class
TitleLink(b) == IF b.search THEN b.h3a ELSE b.titlea

ListingOf(k, bs) == [kind |-> k, blocks |-> bs]

Listings ==
    {ListingOf("neterr", <<>>), ListingOf("readerr", <<>>)}
    \cup {ListingOf("ok", bs) : bs \in SeqsUpTo(SampleBlocks, MaxBlocks)}

\* PastLimit off by one
PastLimit_OffByOne(i, lim) == i > lim

\* lines 113-115: the callback returns at once for a block past the limit
PastLimit(i, lim) == i >= lim

\* lines 124-135: the Talk made from a block; Attr gives "" for a missing href
StubOf(b) ==
    LET href == IF TitleLink(b).hasHref THEN TitleLink(b).href ELSE <<>> IN
    [NewTalk(IF ~HasPrefixHttp(href) THEN baseURL \o href ELSE href)
        EXCEPT !.Title = TitleLink(b).text, !.Speaker = b.speaker]

\* lines 149-176, parseTalkDetails on the response p to its GET:
\* [panic, err, talk], talk being what the caller's Talk holds afterwards
ParseTalkDetailsOn(t, p) ==
    IF p.kind \in GetErrors
    THEN [panic |-> FALSE, err |-> "failed to fetch talk page", talk |-> t]
    ELSE IF p.kind = "readerr"
    THEN [panic |-> FALSE, err |-> "failed to parse talk page", talk |-> t]
    ELSE LET v == ExtractVideoURLs(p.doc, t) IN
         IF v.panic THEN [panic |-> TRUE, err |-> "", talk |-> v.talk]
         ELSE [panic |-> FALSE, err |-> "",
               talk |-> ExtractSubtitleURLs(p.doc, v.talk)]

TopicPages ==
    PageFailures
    \cup {PageOK(200, DocOf("Title", "Speaker",
                            <<ScriptOf(TRUE, JsonH264(SampleH264))>>, SampleAnchors)),
          PageOK(200, DocOf("Title", "Speaker",
                            <<ScriptOf(TRUE, PayloadOf("reversed", <<>>))>>, SampleAnchors)),
          PageOK(404, EmptyDoc)}

\* lines 82-111: the listing GET, answered l
ParseTopic(l) ==
    /\ pc = "ParseTopic"
    /\ requests' = Append(requests, Req("GET", "client.Get", ListURL(query)))
    /\ IF l.kind = "ok"
       THEN /\ blocks' = l.blocks
            /\ pc' = "each"
            /\ result' = result
       ELSE /\ blocks' = blocks
            /\ pc' = "done"
            /\ result' = ReturnErr(IF l.kind = "neterr"
                                   THEN "failed to fetch talks list"
                                   ELSE "failed to parse HTML")
    /\ bodies' = IF l.kind = "neterr" THEN bodies
                 ELSE Append(bodies, Body("listing", IF l.kind = "ok" THEN 0 ELSE 1))
    /\ UNCHANGED <<url, apiResp, pages, talk, apiErr, htmlCalls, limit, query,
                   idx, talks, nilClose, Debug, RawResponses, cmdVars, dlVars>>

\* lines 112-115: the callback on block idx, which is past the limit
EachSkip ==
    /\ pc = "each"
    /\ idx < Len(blocks)
    /\ PastLimit(idx, limit)
    /\ idx' = idx + 1
    /\ UNCHANGED <<pc, url, requests, apiResp, pages, talk, apiErr, htmlCalls,
                   result, limit, query, blocks, talks, bodies, nilClose, Debug,
                   RawResponses, cmdVars, dlVars>>

\* lines 117-142: the callback on block idx, its detail GET answered p
EachTalk(p) ==
    /\ pc = "each"
    /\ idx < Len(blocks)
    /\ ~PastLimit(idx, limit)
    /\ LET stub == StubOf(blocks[idx + 1])
           d    == ParseTalkDetailsOn(stub, p)
       IN  /\ requests' = Append(requests, Req("GET", "client.Get", stub.URL))
           /\ pages' = Append(pages, p)
           /\ IF d.panic
              THEN /\ result' = Panicked
                   /\ pc' = "done"
                   /\ bodies' = CloseBody(Append(bodies, Body("detail", 1)), "listing")
                   /\ UNCHANGED <<idx, talks>>
              ELSE /\ talks' = Append(talks, d.talk)
                   /\ idx' = idx + 1
                   /\ bodies' = IF p.kind \in GetErrors THEN bodies
                                ELSE Append(bodies, Body("detail", 1))
                   /\ UNCHANGED <<pc, result>>
    /\ UNCHANGED <<url, apiResp, talk, apiErr, htmlCalls, limit, query, blocks,
                   nilClose, Debug, RawResponses, cmdVars, dlVars>>

\* line 145: Each is over, talks is returned with a nil error
ReturnTalks ==
    /\ pc = "each"
    /\ idx = Len(blocks)
    /\ pc' = "done"
    /\ result' = ReturnErr("")
    /\ bodies' = CloseBody(bodies, "listing")
    /\ UNCHANGED <<url, requests, apiResp, pages, talk, apiErr, htmlCalls,
                   limit, query, blocks, idx, talks, nilClose, Debug,
                   RawResponses, cmdVars, dlVars>>

InitTopic ==
    /\ pc = "ParseTopic"
    /\ query \in Queries
    /\ limit \in 0..MaxLimit
    /\ url = <<>>
    /\ NewParser
    /\ Debug = FALSE
    /\ RawResponses = EmptyMap
    /\ NoCommand
    /\ NoDownload

NextTopic ==
    \/ \E l \in Listings : ParseTopic(l)
    \/ EachSkip
    \/ \E p \in TopicPages : EachTalk(p)
    \/ ReturnTalks

SpecTopic == InitTopic /\ [][NextTopic]_vars

----------------------------------------------------------------------------
(* The downloader: DownloadVideo and DownloadSubtitle *)

MaxBody == 2

\* line 553
maxRetries == 3

Bytes == {"x", "y"}

ResponseBodies == SeqsUpTo(Bytes, MaxBody)

\* what one pass of the retry loop meets:
\*   createfail  os.Create fails
\*   neterr      client.Get fails
\*   status      a response whose status is not 200
\*   copyfail    status 200, io.Copy fails after writing the first `written`
\*               bytes of the body
\*   ok          status 200, the body copied completely
Outcome(k, status, body, written) ==
    [kind |-> k, status |-> status, body |-> body, written |-> written]

Outcomes ==
    {Outcome("createfail", 0, <<>>, 0), Outcome("neterr", 0, <<>>, 0)}
    \cup {Outcome("status", st, b, 0) : st \in {204, 404}, b \in {<<>>, <<"x">>}}
    \cup {Outcome("copyfail", 200, b, n) : b \in ResponseBodies \ {<<>>}, n \in 0..MaxBody}
    \cup {Outcome("ok", 200, b, Len(b)) : b \in ResponseBodies}

\* a few of them
SampleOutcomes ==
    {Outcome("createfail", 0, <<>>, 0), Outcome("neterr", 0, <<>>, 0),
     Outcome("ok", 200, <<"x">>, 1)}

DownloadCall(method, u, filename) ==
    [method |-> method, url |-> u, filename |-> filename]

\* the error of a failed pass; the two methods differ in their messages only
AttemptErr(method, o) ==
    CASE o.kind = "createfail" -> "failed to create output file"
      [] o.kind = "neterr" ->
            IF method = "DownloadVideo" THEN "failed to get video"
            ELSE "failed to get subtitle"
      [] o.kind = "status" -> "bad status"
      [] o.kind = "copyfail" ->
            IF method = "DownloadVideo" THEN "failed to download video"
            ELSE "failed to download subtitle"
      [] OTHER -> ""

\* Create that opens the file without truncating it
Create_NoTruncate(files, filename) ==
    IF filename \in DOMAIN files THEN files ELSE Put(files, filename, <<>>)

\* lines 567, 622: os.Create makes the file or truncates it
Create(files, filename) == Put(files, filename, <<>>)

\* what io.Copy wrote to the file
Written(o) ==
    CASE o.kind = "ok" -> o.body
      [] o.kind = "copyfail" ->
            SubSeq(o.body, 1, IF o.written <= Len(o.body) THEN o.written
                              ELSE Len(o.body))
      [] OTHER -> <<>>

\* the loop condition with one pass too many
MoreAttempts_OffByOne(a) == a <= maxRetries

\* lines 565, 621: the loop condition
MoreAttempts(a) == a < maxRetries

\* lines 559-562, 615-618: os.MkdirAll of the file's directory
MkdirAll(ok) ==
    /\ dlpc = "mkdir"
    /\ IF ok
       THEN dlpc' = "loop" /\ dlErr' = dlErr
       ELSE dlpc' = "returned" /\ dlErr' = "failed to create directory"
    /\ UNCHANGED <<pc, url, requests, apiResp, pages, talk, apiErr, htmlCalls,
                   result, limit, query, blocks, idx, talks, bodies, nilClose,
                   Debug, RawResponses, cmdVars, dlCall, attempt, lastErr,
                   outcomes, fs>>

\* lines 566-607, 622-662: one pass of the loop, meeting o.  A GET of the empty
\* URL can only fail.
Attempt(o) ==
    /\ dlpc = "loop"
    /\ MoreAttempts(attempt)
    /\ (dlCall.url = <<>>) => o.kind \in {"createfail", "neterr"}
    /\ outcomes' = Append(outcomes, o)
    /\ IF o.kind = "createfail"
       THEN /\ dlErr' = AttemptErr(dlCall.method, o)
            /\ dlpc' = "returned"
            /\ UNCHANGED <<requests, bodies, fs, attempt, lastErr>>
       ELSE /\ requests' = Append(requests, Req("GET", "client.Get", dlCall.url))
            /\ bodies' = IF o.kind = "neterr" THEN bodies
                         ELSE Append(bodies, Body("download", 1))
            /\ fs' = LET f == Create(fs, dlCall.filename) IN
                     Put(f, dlCall.filename, f[dlCall.filename] \o Written(o))
            /\ IF o.kind = "ok"
               THEN /\ dlErr' = ""
                    /\ dlpc' = "returned"
                    /\ UNCHANGED <<attempt, lastErr>>
               ELSE /\ lastErr' = AttemptErr(dlCall.method, o)
                    /\ attempt' = attempt + 1
                    /\ UNCHANGED <<dlpc, dlErr>>
    /\ UNCHANGED <<pc, url, apiResp, pages, talk, apiErr, htmlCalls, result,
                   limit, query, blocks, idx, talks, nilClose, Debug,
                   RawResponses, cmdVars, dlCall>>

\* lines 610, 665: the loop is over, lastErr is returned
Exhausted ==
    /\ dlpc = "loop"
    /\ ~MoreAttempts(attempt)
    /\ dlErr' = lastErr
    /\ dlpc' = "returned"
    /\ UNCHANGED <<pc, url, requests, apiResp, pages, talk, apiErr, htmlCalls,
                   result, limit, query, blocks, idx, talks, bodies, nilClose,
                   Debug, RawResponses, cmdVars, dlCall, attempt, lastErr,
                   outcomes, fs>>

SampleFile == <<"s", "/", "720p", ".mp4">>

\* one call of either method; the file may exist with older content
InitDownloader ==
    /\ pc = "idle"
    /\ url = <<>>
    /\ NewParser
    /\ limit = 0
    /\ query = <<>>
    /\ Debug = FALSE
    /\ RawResponses = EmptyMap
    /\ NoCommand
    /\ dlpc = "mkdir"
    /\ dlCall \in {DownloadCall(m, u, SampleFile) :
                     m \in {"DownloadVideo", "DownloadSubtitle"},
                     u \in {<<>>, <<"v1">>}}
    /\ attempt = 0
    /\ lastErr = ""
    /\ dlErr = ""
    /\ outcomes = <<>>
    /\ fs \in {EmptyMap, Put(EmptyMap, SampleFile, <<"o">>)}

NextDownloader ==
    \/ \E ok \in BOOLEAN : MkdirAll(ok)
    \/ \E o \in Outcomes : Attempt(o)
    \/ Exhausted

SpecDownloader == InitDownloader /\ [][NextDownloader]_vars

----------------------------------------------------------------------------
(* The download command: runDownload, and ParseTalkDetails which it calls *)

\* the flag values: --quality and --subtitle
Qualities == {"720p", "1080p"}

SubtitleFlags == {"", "en", "zh-CN"}

\* lines 74, 87, Downloader.GetDownloadPath: <output>/<slug>/<format>
GetDownloadPath(slug, name, ext) == slug \o <<"/", name, ext>>

\* the positional arguments: none, a talk URL, a URL that is no talk URL, a title
CmdArgs ==
    {<<>>,
     <<<<"http", "s", ":", "/", "/", "www.ted.com", "/", "talks", "/", "s", "?", "s">>>>,
     <<<<"http", "s", ":", "/", "/", "www.ted.com", "/">>>>,
     <<<<"education">>>>}

\* a node whose only entry is Simplified Chinese with the API's lowercase code
ChineseNode ==
    NodeOf(<<[code |-> "en", low |-> <<"a">>, high |-> <<"h">>],
             [code |-> "zh-cn", low |-> <<"b">>, high |-> <<>>]>>)

CmdAPIResponses ==
    {APIFail("neterr"), APIJson(<<>>, <<SampleNode>>), APIJson(<<>>, <<ChineseNode>>)}

CmdTitlePages == {PageFail("readerr"), PageOK(200, DocOf("Title", "Speaker", <<>>, <<>>))}

CmdFallbackPages ==
    {PageFail("neterr"),
     PageOK(200, DocOf("Title", "Speaker",
                       <<ScriptOf(TRUE, JsonH264(SampleH264))>>, SampleAnchors))}

CmdListings ==
    {ListingOf("neterr", <<>>), ListingOf("ok", <<>>)}
    \cup {ListingOf("ok", bs) : bs \in [1..2 -> SampleBlocks] \cup [1..1 -> SampleBlocks]}

CmdDetailPages == {PageOK(404, EmptyDoc)}

\* a download call starts
StartDownload(method, u, filename) ==
    /\ dlCall' = DownloadCall(method, u, filename)
    /\ dlpc' = "mkdir"
    /\ attempt' = 0
    /\ lastErr' = ""
    /\ dlErr' = ""
    /\ outcomes' = <<>>

\* cmd/download.go lines 38-61: the argument check, downloader.New (mk: its
\* MkdirAll succeeds), and the call that resolves the argument
RunDownload(mk) ==
    /\ cmd = "start"
    /\ IF Len(args) = 0
       THEN /\ cmdResult' = ReturnErr("please provide a talk title or URL")
            /\ cmd' = "exit"
            /\ UNCHANGED <<pc, url, query, limit>>
       ELSE IF ~mk
       THEN /\ cmdResult' = ReturnErr("failed to create downloader")
            /\ cmd' = "exit"
            /\ UNCHANGED <<pc, url, query, limit>>
       ELSE IF HasPrefixHttp(args[1])
       THEN /\ url' = args[1]
            /\ pc' = "ParseURL"
            /\ cmd' = "url"
            /\ UNCHANGED <<cmdResult, query, limit>>
       ELSE /\ query' = args[1]
            /\ limit' = 1
            /\ pc' = "ParseTopic"
            /\ cmd' = "search"
            /\ UNCHANGED <<cmdResult, url>>
    /\ UNCHANGED <<requests, apiResp, pages, talk, apiErr, htmlCalls, result,
                   blocks, idx, talks, bodies, nilClose, Debug, RawResponses,
                   args, quality, subtitle, dlVars>>

\* parser lines 507-519: ParseTalkDetails after its ParseTopic(title, 1) returned
ParseTalkDetails ==
    /\ cmd = "search"
    /\ pc = "done"
    /\ cmd' = "title"
    /\ IF result.kind = "panic"
       THEN UNCHANGED <<pc, url, result>>
       ELSE IF result.err # ""
       THEN /\ result' = ReturnErr("failed to search for talk")
            /\ UNCHANGED <<pc, url>>
       ELSE IF Len(talks) = 0
       THEN /\ result' = ReturnErr("no talk found with title")
            /\ UNCHANGED <<pc, url>>
       ELSE /\ url' = talks[1].URL
            /\ pc' = "ParseURL"
            /\ result' = Pending
    /\ UNCHANGED <<requests, apiResp, pages, talk, apiErr, htmlCalls, limit,
                   query, blocks, idx, talks, bodies, nilClose, Debug,
                   RawResponses, args, quality, subtitle, cmdResult, dlVars>>

\* cmd/download.go lines 56-77, from the return of ParseURL or ParseTalkDetails
\* to the call of DownloadVideo.  On the title branch line 60 reads talk.URL
\* before err is tested: with a nil talk that is a runtime panic.
Resolved ==
    /\ cmd \in {"url", "title"}
    /\ pc = "done"
    /\ IF result.kind = "panic" \/ (cmd = "title" /\ result.talk = <<>>)
       THEN /\ cmdResult' = Panicked
            /\ cmd' = "exit"
            /\ UNCHANGED dlVars
       ELSE IF result.err # ""
       THEN /\ cmdResult' = ReturnErr("failed to parse talk details")
            /\ cmd' = "exit"
            /\ UNCHANGED dlVars
       ELSE IF quality \notin DOMAIN result.talk[1].VideoURLs
       THEN /\ cmdResult' = ReturnErr("video quality not available")
            /\ cmd' = "exit"
            /\ UNCHANGED dlVars
       ELSE /\ StartDownload("DownloadVideo", result.talk[1].VideoURLs[quality],
                             GetDownloadPath(SlugOf(IF cmd = "url" THEN args[1]
                                                    ELSE result.talk[1].URL),
                                             quality, ".mp4"))
            /\ cmd' = "video"
            /\ UNCHANGED <<cmdResult, fs>>
    /\ UNCHANGED <<pc, url, requests, apiResp, pages, talk, apiErr, htmlCalls,
                   result, limit, query, blocks, idx, talks, bodies, nilClose,
                   Debug, RawResponses, args, quality, subtitle>>

\* cmd/download.go lines 75-88, from the return of DownloadVideo
VideoDone ==
    /\ cmd = "video"
    /\ dlpc = "returned"
    /\ IF dlErr # ""
       THEN /\ cmdResult' = ReturnErr("failed to download video")
            /\ cmd' = "exit"
            /\ UNCHANGED dlVars
       ELSE IF subtitle = ""
       THEN /\ cmdResult' = ReturnErr("")
            /\ cmd' = "exit"
            /\ UNCHANGED dlVars
       ELSE IF subtitle \notin DOMAIN result.talk[1].SubtitleURLs
       THEN /\ cmdResult' = ReturnErr("subtitle language not available")
            /\ cmd' = "exit"
            /\ UNCHANGED dlVars
       ELSE /\ StartDownload("DownloadSubtitle", result.talk[1].SubtitleURLs[subtitle],
                             GetDownloadPath(SlugOf(IF HasPrefixHttp(args[1]) THEN args[1]
                                                    ELSE result.talk[1].URL),
                                             subtitle, ".srt"))
            /\ cmd' = "subtitle"
            /\ UNCHANGED <<cmdResult, fs>>
    /\ UNCHANGED <<pc, url, requests, apiResp, pages, talk, apiErr, htmlCalls,
                   result, limit, query, blocks, idx, talks, bodies, nilClose,
                   Debug, RawResponses, args, quality, subtitle>>

\* cmd/download.go lines 88-97, from the return of DownloadSubtitle
SubtitleDone ==
    /\ cmd = "subtitle"
    /\ dlpc = "returned"
    /\ cmdResult' = IF dlErr # "" THEN ReturnErr("failed to download subtitle")
                    ELSE ReturnErr("")
    /\ cmd' = "exit"
    /\ UNCHANGED <<pc, url, requests, apiResp, pages, talk, apiErr, htmlCalls,
                   result, limit, query, blocks, idx, talks, bodies, nilClose,
                   Debug, RawResponses, args, quality, subtitle, dlVars>>

InitCmd ==
    /\ pc = "idle"
    /\ url = <<>>
    /\ NewParser
    /\ limit = 0
    /\ query = <<>>
    /\ Debug = FALSE
    /\ RawResponses = EmptyMap
    /\ NoDownload
    /\ args \in CmdArgs
    /\ quality \in Qualities
    /\ subtitle \in SubtitleFlags
    /\ cmd = "start"
    /\ cmdResult = Pending

NextCmd ==
    \/ \E mk \in BOOLEAN : RunDownload(mk)
    \/ \E l \in CmdListings : ParseTopic(l)
    \/ EachSkip
    \/ \E p \in CmdDetailPages : EachTalk(p)
    \/ ReturnTalks
    \/ ParseTalkDetails
    \/ ParseURL
    \/ \E r \in CmdAPIResponses : ParseWithGraphQL(r)
    \/ \E p \in CmdTitlePages : FetchDetails(p)
    \/ \E p \in CmdFallbackPages : Fallback(p)
    \/ Resolved
    \/ \E ok \in BOOLEAN : MkdirAll(ok)
    \/ \E o \in SampleOutcomes : Attempt(o)
    \/ Exhausted
    \/ VideoDone
    \/ SubtitleDone

SpecCmd == InitCmd /\ [][NextCmd]_vars

----------------------------------------------------------------------------
(* Properties *)

SetMax(S) == CHOOSE x \in S : \A y \in S : y <= x

SetMin(S) == CHOOSE x \in S : \A y \in S : x <= y

Min(a, b) == IF a <= b THEN a ELSE b

\* the URL up to its query string: the longest prefix without "?"
C1_Path(u) ==
    SubSeq(u, 1, SetMax({n \in 0..Len(u) : \A i \in 1..n : u[i] # "?"}))

\* the last non-empty segment of a path: the run of non-"/" tokens that ends at
\* the last token that is not "/"
C1_Segment(p) ==
    LET ends == {i \in 1..Len(p) : p[i] # "/"} IN
    IF ends = {} THEN <<>>
    ELSE LET last  == SetMax(ends)
             first == SetMin({i \in 1..last : \A j \in i..last : p[j] # "/"})
         IN  SubSeq(p, first, last)

C1_Invalid(u) ==
    LET p == C1_Path(u)
        seg == C1_Segment(p)
    IN  \/ seg = <<>>
        \/ \E i \in 1..Len(seg) : seg[i] = "."
        \/ ~\E i \in 1..(Len(p) - 2) :
               p[i] = "/" /\ p[i+1] = "talks" /\ p[i+2] = "/"

\* C1: ParseURL on a URL whose last non-empty path segment (query stripped) is
\* empty or contains ".", or whose path lacks "/talks/", returns the error
\* "invalid TED talk URL" and has issued no request.
C1_InvalidURLFailsBeforeAnyRequest ==
    (pc # "ParseURL" /\ C1_Invalid(url)) =>
        /\ pc = "done"
        /\ result = ReturnErr("invalid TED talk URL")
        /\ requests = <<>>

\* a URL under /talks/ whose slug holds a "." has been rejected
C1_Witness ==
    /\ pc = "done"
    /\ Contains(url, <<"/", "talks", "/">>)
    /\ \E i \in 1..Len(C1_Segment(C1_Path(url))) : C1_Segment(C1_Path(url))[i] = "."
    /\ result.err = "invalid TED talk URL"

\* the API failures C2 lists
C2_APIFailed ==
    \/ apiResp.kind \in {"neterr", "undecodable"}
    \/ apiResp.kind = "json" /\ (Len(apiResp.errors) > 0 \/ Len(apiResp.nodes) = 0)

C2_APIErrors ==
    {"failed to send request", "failed to decode response", "GraphQL error",
     "no video data found"}

\* what a document offers, read off the document
C2_MarkerScripts(doc) == {i \in 1..Len(doc.scripts) : doc.scripts[i].marker}

C2_Breaks(doc) ==
    \E i \in C2_MarkerScripts(doc) : doc.scripts[i].payload.kind = "reversed"

C2_OffersVideo(doc) ==
    \E i \in C2_MarkerScripts(doc) :
        LET pl == doc.scripts[i].payload IN
        /\ pl.kind = "json"
        /\ Len(pl.talks) > 0
        /\ Len(pl.talks[1].player_talks) > 0
        /\ Len(pl.talks[1].player_talks[1].h264) > 0

C2_OffersSubtitles(doc) ==
    \E i \in 1..Len(doc.anchors) : doc.anchors[i].hasHref /\ doc.anchors[i].lang # ""

C3_HasAURL(t) ==
    \/ \E k \in DOMAIN t.VideoURLs : t.VideoURLs[k] # <<>>
    \/ \E k \in DOMAIN t.SubtitleURLs : t.SubtitleURLs[k] # <<>>
    \/ \E i \in 1..Len(t.VideoFormats) : t.VideoFormats[i].URL # <<>>

\* C3: every Talk ParseURL returns has at least one non-empty URL among
\* VideoURLs, SubtitleURLs and VideoFormats.
C3_ReturnedTalkHasAURL ==
    (pc = "done" /\ Len(result.talk) = 1) => C3_HasAURL(result.talk[1])

\* the page parseWithHTML fetched
C4_Page == pages[Len(pages)]

C4_Fetched == pc = "done" /\ htmlCalls = 1 /\ C4_Page.kind = "ok"

\* both extractors ran on the fetched page and left both maps empty
C4_ExtractionEmpty ==
    LET v == ExtractVideoURLs(C4_Page.doc, NewTalk(url)) IN
    /\ ~v.panic
    /\ MapLen(v.talk.VideoURLs) = 0
    /\ MapLen(ExtractSubtitleURLs(C4_Page.doc, v.talk).SubtitleURLs) = 0

\* C4: when the fallback has fetched the page and extraction leaves VideoURLs and
\* SubtitleURLs both empty, ParseURL returns no Talk and the error "no video or
\* subtitle data found"; a Talk it returns from the fallback has an entry in one
\* of the two maps.
C4_EmptyExtractionIsAnError ==
    /\ (C4_Fetched /\ C4_ExtractionEmpty) =>
           result = ReturnErr("no video or subtitle data found")
    /\ (C4_Fetched /\ Len(result.talk) = 1) =>
           MapLen(result.talk[1].VideoURLs) + MapLen(result.talk[1].SubtitleURLs) > 0

\* a page with a title and a speaker but no video or subtitle data was refused
C4_Witness ==
    /\ C4_Fetched
    /\ C4_Page.doc.h1 = "Title"
    /\ C4_Page.doc.h2 = "Speaker"
    /\ C4_ExtractionEmpty
    /\ result.talk = <<>>

\* the structured-API path succeeded: a Talk came back without the fallback
C5_APISucceeded == pc = "done" /\ htmlCalls = 0 /\ Len(result.talk) = 1

C5_Subs == apiResp.nodes[1].subs

C5_English == {i \in 1..Len(C5_Subs) : C5_Subs[i].code = "en"}

\* C5: when the structured-API path succeeds and the first node's list has an
\* entry with code exactly "en", VideoURLs is {"720p": low, "1080p": high} of the
\* first such entry and holds nothing else.
C5_VideoURLsFromFirstEnglishEntry ==
    (C5_APISucceeded /\ C5_English # {}) =>
        LET e == C5_Subs[SetMin(C5_English)] IN
        result.talk[1].VideoURLs =
            [q \in {"720p", "1080p"} |-> IF q = "720p" THEN e.low ELSE e.high]

\* two "en" entries with different low URLs: the first one was taken
C5_Witness ==
    /\ C5_APISucceeded
    /\ Cardinality(C5_English) = 2
    /\ C5_Subs[1].low # C5_Subs[2].low
    /\ result.talk[1].VideoURLs["720p"] = C5_Subs[1].low

C6_WithLow == {i \in 1..Len(C5_Subs) : C5_Subs[i].low # <<>>}

\* C6: when the structured-API path succeeds, SubtitleURLs maps the lowercased
\* code of every entry with a non-empty low to the low of the last such entry
\* with that lowercased code, and has no other key.
C6_SubtitleURLsFromEveryEntry ==
    C5_APISucceeded =>
        result.talk[1].SubtitleURLs =
            [k \in {ToLower(C5_Subs[i].code) : i \in C6_WithLow} |->
                C5_Subs[SetMax({i \in C6_WithLow : ToLower(C5_Subs[i].code) = k})].low]

\* "en" then "EN" with different low URLs: one key, the later URL
C6_Witness ==
    /\ C5_APISucceeded
    /\ Len(C5_Subs) = 2
    /\ C5_Subs[1].code = "en"
    /\ C5_Subs[2].code = "EN"
    /\ C6_WithLow = {1, 2}
    /\ C5_Subs[1].low # C5_Subs[2].low
    /\ DOMAIN result.talk[1].SubtitleURLs = {"en"}
    /\ result.talk[1].SubtitleURLs["en"] = C5_Subs[2].low

\* the fetched page has exactly one talkPage.init script and its JSON decodes to
\* a first talk with a first player talk
C7_OneDecodedScript ==
    /\ Cardinality(C2_MarkerScripts(C4_Page.doc)) = 1
    /\ LET pl == C4_Page.doc.scripts[SetMin(C2_MarkerScripts(C4_Page.doc))].payload IN
       /\ pl.kind = "json"
       /\ Len(pl.talks) > 0
       /\ Len(pl.talks[1].player_talks) > 0

C7_H264 ==
    C4_Page.doc.scripts[SetMin(C2_MarkerScripts(C4_Page.doc))]
        .payload.talks[1].player_talks[1].h264

\* C7: extraction from one talkPage.init script whose JSON decodes to the h264
\* entries e1..en gives VideoFormats = the records {Quality, URL = file, Size} of
\* e1..en in order, and VideoURLs with exactly the entries' qualities as keys,
\* each mapped to the file of the last entry of that quality.
C7_VideoFormatsInSourceOrder ==
    (C4_Fetched /\ Len(result.talk) = 1 /\ C7_OneDecodedScript) =>
        LET t == result.talk[1] IN
        /\ t.VideoFormats =
              [i \in 1..Len(C7_H264) |->
                  [Quality |-> C7_H264[i].quality, URL |-> C7_H264[i].file,
                   Size |-> C7_H264[i].size]]
        /\ DOMAIN t.VideoURLs = {C7_H264[i].quality : i \in 1..Len(C7_H264)}
        /\ \A q \in DOMAIN t.VideoURLs :
              t.VideoURLs[q] =
                  C7_H264[SetMax({i \in 1..Len(C7_H264) : C7_H264[i].quality = q})].file

\* two entries of one quality with different files: both formats kept
C7_Witness ==
    /\ C4_Fetched
    /\ Len(result.talk) = 1
    /\ C7_OneDecodedScript
    /\ Len(C7_H264) = 2
    /\ C7_H264[1].quality = C7_H264[2].quality
    /\ C7_H264[1].file # C7_H264[2].file
    /\ Len(result.talk[1].VideoFormats) = 2

\* an href with a scheme is an absolute URL (RFC 3986): a ":" that follows one
\* or more tokens none of which is "/", "?" or ":"
C8_HasScheme(h) ==
    \E i \in 2..Len(h) :
        h[i] = ":" /\ \A j \in 1..(i-1) : h[j] \notin {"/", "?", ":"}

C8_Resolved(h) == IF C8_HasScheme(h) THEN h ELSE baseURL \o h

C8_Anchors == C4_Page.doc.anchors

C8_Recorded == {i \in 1..Len(C8_Anchors) : C8_Anchors[i].hasHref /\ C8_Anchors[i].lang # ""}

\* C8: markup subtitle extraction records SubtitleURLs[code] = href for every
\* anchor with a non-empty code and an href (a later anchor of the same code
\* replacing an earlier one), the site base URL prefixed to a relative href and
\* an absolute href left as it is; other anchors add no entry.
C8_SubtitleHrefsResolved ==
    (C4_Fetched /\ Len(result.talk) = 1) =>
        LET m == result.talk[1].SubtitleURLs IN
        /\ DOMAIN m = {C8_Anchors[i].lang : i \in C8_Recorded}
        /\ \A k \in DOMAIN m :
              m[k] = C8_Resolved(
                  C8_Anchors[SetMax({i \in C8_Recorded : C8_Anchors[i].lang = k})].href)

C9_DetailRequests == SubSeq(requests, 2, Len(requests))

C9_Cap == Min(Len(blocks), limit)

C10_Failed(p) ==
    \/ p.kind \in {"neterr", "readerr"}
    \/ p.kind = "ok" /\ C2_Breaks(p.doc)

\* C10: a failed enrichment of a listing entry does not abort the batch:
\* ParseTopic returns without error, the entry is in the result at its listing
\* position with the listing's Title, Speaker and URL, and every later entry
\* up to the limit is still fetched.
C10_FailedEnrichmentKeepsBatch ==
    (pc = "done" /\ \E i \in 1..Len(pages) : C10_Failed(pages[i])) =>
        /\ result = ReturnErr("")
        /\ Len(talks) = C9_Cap
        /\ Len(pages) = C9_Cap
        /\ \A i \in 1..Len(talks) :
              /\ talks[i].Title = StubOf(blocks[i]).Title
              /\ talks[i].Speaker = StubOf(blocks[i]).Speaker
              /\ talks[i].URL = StubOf(blocks[i]).URL

\* the GET of the markup path ended in a transport error or a non-2xx status
C11_GetFailed ==
    \/ C4_Page.kind \in GetErrors
    \/ C4_Page.kind = "ok" /\ C4_Page.status \notin 200..299

\* C11: when the markup path's GET of the talk page ends in a transport error
\* or a non-2xx status, the markup path returns an error and no Talk, whatever
\* the body of the non-2xx response holds.
C11_FailedGetIsAnError ==
    (pc = "done" /\ htmlCalls = 1 /\ C11_GetFailed) =>
        /\ result.kind = "returned"
        /\ result.talk = <<>>
        /\ result.err # ""

\* C12: when a ParseURL or ParseTopic call has returned, every response body it
\* obtained has been closed, and no Close was attempted through a response
\* that was never obtained.
C12_EveryBodyClosed ==
    pc = "done" =>
        /\ \A i \in 1..Len(bodies) : bodies[i].closes >= 1
        /\ ~nilClose

\* the language codes of the inputs that have no uppercase letter
C13_LowercaseCodes == {"en", "zh-cn"}

\* C13: every key of SubtitleURLs in a Talk ParseURL returns is a lowercase
\* language code, on the structured-API path and on the markup path.
C13_SubtitleKeysLowercase ==
    (pc = "done" /\ Len(result.talk) = 1) =>
        DOMAIN result.talk[1].SubtitleURLs \subseteq C13_LowercaseCodes

\* the call made passes before the one that returned nil
C15_Succeeded == dlpc = "returned" /\ dlErr = "" /\ Len(outcomes) > 0

\* C15: when DownloadVideo or DownloadSubtitle returns nil, the file exists and
\* its content is exactly the body of the 200 response of the pass that
\* succeeded, whatever the earlier passes of the call wrote.
C15_FileIsTheSuccessfulBody ==
    C15_Succeeded =>
        /\ outcomes[Len(outcomes)].status = 200
        /\ dlCall.filename \in DOMAIN fs
        /\ fs[dlCall.filename] = outcomes[Len(outcomes)].body

\* a pass that wrote part of another body came before the successful one
C15_Witness ==
    /\ C15_Succeeded
    /\ Len(outcomes) = 3
    /\ outcomes[1].kind = "status"
    /\ outcomes[2].kind = "copyfail"
    /\ outcomes[2].written > 0
    /\ outcomes[2].body # outcomes[3].body
    /\ outcomes[3].body # <<>>
    /\ fs[dlCall.filename] = outcomes[3].body

\* the passes that received status 200 and copied the whole body
C20_Successes == {i \in 1..Len(outcomes) : outcomes[i].kind = "ok"}

\* the passes that issued a GET
C20_Gets == {i \in 1..Len(outcomes) : outcomes[i].kind # "createfail"}

\* C20: one call issues at most maxRetries GETs and none after the first pass
\* that succeeded; it returns a non-nil error exactly when no pass succeeded,
\* the error of the last pass; a failure to create the file ends the call at
\* once with an error.
C20_AtMostMaxRetriesAttempts ==
    /\ Len(requests) = Cardinality(C20_Gets)
    /\ Len(requests) <= 3
    /\ \A i \in 1..(Len(outcomes) - 1) : outcomes[i].kind \notin {"ok", "createfail"}
    /\ (Len(outcomes) > 0 /\ outcomes[Len(outcomes)].kind \in {"ok", "createfail"}) =>
           dlpc = "returned"
    /\ dlpc = "returned" =>
           /\ (dlErr # "") <=> (C20_Successes = {})
           /\ (dlErr # "" /\ Len(outcomes) > 0) =>
                 LET o == outcomes[Len(outcomes)] IN
                 dlErr = CASE o.kind = "createfail" -> "failed to create output file"
                           [] o.kind = "neterr" /\ dlCall.method = "DownloadVideo" ->
                                 "failed to get video"
                           [] o.kind = "neterr" /\ dlCall.method = "DownloadSubtitle" ->
                                 "failed to get subtitle"
                           [] o.kind = "status" -> "bad status"
                           [] o.kind = "copyfail" /\ dlCall.method = "DownloadVideo" ->
                                 "failed to download video"
                           [] o.kind = "copyfail" /\ dlCall.method = "DownloadSubtitle" ->
                                 "failed to download subtitle"

\* three failed passes, the last one's error returned
C20_Witness ==
    /\ dlpc = "returned"
    /\ Len(outcomes) = 3
    /\ Len(requests) = 3
    /\ outcomes[1].kind = "neterr"
    /\ outcomes[2].kind = "copyfail"
    /\ outcomes[3].kind = "status"
    /\ dlErr = "bad status"

\* the command was given a talk URL and resolution succeeded on the structured
\* API, whose first node offers Simplified Chinese with a non-empty low URL
C14_ChineseOffered ==
    /\ Len(args) > 0
    /\ HasPrefixHttp(args[1])
    /\ pc = "done"
    /\ htmlCalls = 0
    /\ Len(result.talk) = 1
    /\ \E i \in 1..Len(C5_Subs) :
          C5_Subs[i].code \in {"zh-cn", "zh-CN"} /\ C5_Subs[i].low # <<>>

\* DownloadVideo returned nil
C14_VideoDownloaded ==
    \/ dlCall.method = "DownloadSubtitle"
    \/ dlCall.method = "DownloadVideo" /\ dlpc = "returned" /\ dlErr = ""

\* C14: `download <talk URL> --quality 720p --subtitle zh-CN` finds the
\* subtitle: when resolution succeeded from an API answer that offers
\* Simplified Chinese and the video was downloaded, runDownload looks the
\* subtitle URL up successfully and downloads it, and does not return
\* "subtitle language zh-CN not available".
C14_DocumentedSubtitleFlagWorks ==
    (cmd = "exit" /\ subtitle = "zh-CN" /\ C14_ChineseOffered /\ C14_VideoDownloaded) =>
        /\ cmdResult.err # "subtitle language not available"
        /\ dlCall.method = "DownloadSubtitle"
        /\ \E i \in 1..Len(C5_Subs) :
              C5_Subs[i].code \in {"zh-cn", "zh-CN"} /\ dlCall.url = C5_Subs[i].low

\* resolution of the argument returned an error
C19_ResolutionFailed ==
    /\ cmd = "exit"
    /\ pc = "done"
    /\ result.kind = "returned"
    /\ result.err # ""

\* C19: if resolution of the argument fails, by URL or by title, runDownload
\* returns an error wrapping the failure, "failed to parse talk details", and
\* starts no download; it does not read the absent Talk.
C19_FailedResolutionIsReported ==
    C19_ResolutionFailed =>
        /\ cmdResult = ReturnErr("failed to parse talk details")
        /\ dlpc = "idle"
        /\ fs = EmptyMap

\* the slug of the call, read off the URL
C16_Slug == C1_Segment(C1_Path(url))

C16_OwnKeys == {<<"graphql_">> \o C16_Slug, <<"html_">> \o C16_Slug}

\* C16: with debug capture on, after a ParseURL call for slug s that succeeded
\* on the structured-API path, RawResponses holds the API's raw response under
\* "graphql_"+s and the talk page's under "html_"+s, and the steps of that path
\* add or change no entry under another key; with debug capture off no step of
\* the parser adds or changes any entry.
C16_CapturesKeyedBySlug ==
    /\ [](  (Debug /\ C5_APISucceeded) =>
              /\ C16_OwnKeys \subseteq DOMAIN RawResponses
              /\ RawResponses[<<"graphql_">> \o C16_Slug] = apiResp
              /\ RawResponses[<<"html_">> \o C16_Slug] = pages[Len(pages)])
    /\ [][ /\ pc \in {"graphql", "details"} =>
              /\ DOMAIN RawResponses \subseteq DOMAIN RawResponses'
              /\ DOMAIN RawResponses' \subseteq DOMAIN RawResponses \cup C16_OwnKeys
              /\ \A k \in DOMAIN RawResponses \ C16_OwnKeys :
                    RawResponses'[k] = RawResponses[k]
           /\ ~Debug => RawResponses' = RawResponses ]_vars

\* the captures of this call stand next to those of an earlier call for
\* another slug
C16_Witness ==
    /\ Debug
    /\ C5_APISucceeded
    /\ C16_Slug = <<"s", "s">>
    /\ DOMAIN RawResponses = C16_OwnKeys \cup DOMAIN PrevCaptures(<<"s">>)
    /\ RawResponses[<<"graphql_", "s">>] = PrevCaptures(<<"s">>)[<<"graphql_", "s">>]
    /\ RawResponses[<<"graphql_", "s", "s">>] = apiResp

\* the structured API answered with a node and the GET of the talk page for
\* title and speaker failed: transport error or body read error
C17_DetailsFailed ==
    /\ apiResp.kind = "json"
    /\ Len(apiResp.errors) = 0
    /\ Len(apiResp.nodes) > 0
    /\ Len(pages) >= 1
    /\ pages[1].kind \in {"neterr", "redirecterr", "readerr"}

\* C17: if the structured API answered with at least one node but the GET of
\* the talk page for title and speaker fails, ParseURL still ends by running
\* the markup fallback and returns that path's Talk or error.
C17_DetailsFailureFallsBack ==
    (pc = "done" /\ C17_DetailsFailed) =>
        /\ htmlCalls = 1
        /\ Len(pages) = 2
        /\ result.kind = "returned" \/ (pages[2].kind = "ok" /\ C2_Breaks(pages[2].doc))
        /\ pages[2].kind = "neterr" => result = ReturnErr("failed to fetch talk page")
        /\ pages[2].kind = "readerr" => result = ReturnErr("failed to read HTML response")

\* the fetched page's scripts with the marker
C18_Marked == C2_MarkerScripts(C4_Page.doc)

\* the h264 entries a script decodes to, none if it does not decode
C18_Decoded(sc) ==
    IF /\ sc.payload.kind = "json"
       /\ Len(sc.payload.talks) > 0
       /\ Len(sc.payload.talks[1].player_talks) > 0
    THEN sc.payload.talks[1].player_talks[1].h264
    ELSE <<>>

\* C18: markup video extraction uses only the first script with the marker
\* talkPage.init: on a document with two or more such scripts VideoFormats and
\* VideoURLs hold exactly the entries decoded from the first one, nothing if it
\* does not decode; a script that fails to decode is no error of the page parse.
C18_OnlyFirstMarkerScript ==
    (C4_Fetched /\ Cardinality(C18_Marked) >= 2 /\ ~C2_Breaks(C4_Page.doc)) =>
        LET e == C18_Decoded(C4_Page.doc.scripts[SetMin(C18_Marked)]) IN
        /\ result.kind = "returned"
        /\ result.err \in {"", "no video or subtitle data found"}
        /\ Len(result.talk) = 1 =>
              /\ result.talk[1].VideoFormats =
                    [i \in 1..Len(e) |->
                        [Quality |-> e[i].quality, URL |-> e[i].file, Size |-> e[i].size]]
              /\ DOMAIN result.talk[1].VideoURLs = {e[i].quality : i \in 1..Len(e)}
        /\ Len(e) > 0 => Len(result.talk) = 1

====
